---- MODULE Spec2Model ----
(***************************************************************************)
(* A model of src/src/nfa.rs: the infix-to-postfix converter re2post, the  *)
(* Thompson construction postfix2nfa over a slab of states, and the NFA    *)
(* simulation match_expr (add_state, step, is_match).                      *)
(*                                                                         *)
(* Characters are one-character strings, patterns and inputs are sequences *)
(* of characters.  Positions (index) are zero-based as in the source, so   *)
(* the character at position i of re is re[i + 1].  The identity of a      *)
(* state in the slab is zero-based too: state k is states[k + 1].          *)
(***************************************************************************)
EXTENDS Integers, Sequences, FiniteSets, TLC

(* ------------------------------ bounds --------------------------------- *)

\* longest pattern handed to re2post
MaxPatLen == 4
\* longest input string handed to match_expr
MaxStrLen == 2
\* longest operand e of the patterns (e)+ handed to re2post
MaxOperandLen == 4

(* ----------------------------- alphabets ------------------------------- *)

\* the six operator characters of re2post's match arms
Operators == {"(", ")", "|", "*", "+", "?"}
\* characters that fall into the `_` arm of re2post (a sample of them)
Literals == {"a", "b", "."}
PatternChars == Operators \cup Literals
\* characters of the inputs given to match_expr
InputChars == {"a", "b"}

SeqsUpTo(S, n) == UNION {[1..k -> S] : k \in 0..n}

Patterns == SeqsUpTo(PatternChars, MaxPatLen)
Inputs == SeqsUpTo(InputChars, MaxStrLen)

\* the patterns (e)+ for every character sequence e of at most MaxOperandLen
PlusPatterns == {<<"(">> \o e \o <<")", "+">> : e \in SeqsUpTo(PatternChars, MaxOperandLen)}

\* n copies of ch
Rep(ch, n) == [i \in 1..n |-> ch]

(* ------------------------ StateIndex, CharS, State --------------------- *)

Index(i) == [kind |-> "Index", v |-> i]
DualIndex2out(i) == [kind |-> "DualIndex2out", v |-> i]
DualIndex2out1(i) == [kind |-> "DualIndex2out1", v |-> i]

value(si) == si.v
point2out(si) == DualIndex2out(value(si))
\* the out1 slot mistaken for the out slot
point2out1_as_out(si) == DualIndex2out(value(si))
point2out1(si) == DualIndex2out1(value(si))

Char(ch) == [tag |-> "Char", ch |-> ch]
Split == [tag |-> "Split", ch |-> ""]
Match == [tag |-> "Match", ch |-> ""]
Null == [tag |-> "Null", ch |-> ""]

NULL_INDEX == Index(0)
MATCH_INDEX == Index(1)
State(c, out, out1) == [c |-> c, out |-> out, out1 |-> out1]
NULL_STATE == State(Null, NULL_INDEX, NULL_INDEX)
MATCH_STATE == State(Match, NULL_INDEX, NULL_INDEX)

\* Slab::get: the state stored under key k, if any
Has(slab, k) == k \in 0..(Len(slab) - 1)
Get(slab, k) == slab[k + 1]
\* Slab::insert on a slab nothing was removed from: the next key is its length
NextKey(slab) == Len(slab)

VARIABLES
    pc,        \* where the pipeline stands
    re,        \* the pattern given to re2post
    index,     \* re2post: position of the next character of re
    natom,     \* re2post: atoms pending concatenation at this nesting level
    nalt,      \* re2post: alternation branches completed at this level
    paren,     \* re2post: stack of saved <<nalt, natom>>
    postfix,   \* re2post: the output; then postfix2nfa's input
    err,       \* re2post: -1, or the position returned in Err
    ptok,      \* postfix2nfa: number of postfix tokens consumed
    states,    \* the slab of states
    frags,     \* postfix2nfa: the stack of fragments
    start,     \* the start reference postfix2nfa returns
    string,    \* match_expr: the input
    spos,      \* match_expr: number of input characters consumed
    cset,      \* match_expr: current state set
    nset,      \* match_expr: next state set
    calls,     \* match_expr: FALSE until the first call on this NFA returns
    result     \* match_expr: "none", "true", "false", or how the run died

vars == <<pc, re, index, natom, nalt, paren, postfix, err, ptok, states, frags,
          start, string, spos, cset, nset, calls, result>>

convVars == <<index, natom, nalt, paren, postfix, err>>
buildVars == <<ptok, states, frags, start>>
matchVars == <<string, spos, cset, nset, calls, result>>

Init ==
    /\ re \in Patterns
    /\ pc = "re2post"
    /\ index = 0
    /\ natom = 0
    /\ nalt = 0
    /\ paren = <<>>
    /\ postfix = <<>>
    /\ err = -1
    /\ ptok = 0
    /\ states = <<>>
    /\ frags = <<>>
    /\ start = NULL_INDEX
    /\ string = <<>>
    /\ spos = 0
    /\ cset = {}
    /\ nset = {}
    /\ calls = FALSE
    /\ result = "none"

(* ------------------------------ re2post -------------------------------- *)

\* `for _ in 1..natom { postfix.push('.') }`: natom - 1 dots, none when natom = 0
Flush(n) == IF n > 1 THEN Rep(".", n - 1) ELSE <<>>

InLoop == pc = "re2post" /\ index < Len(re)
ch == re[index + 1]

\* the position reported one-based
Re2postErrOneBased ==
    /\ err' = index + 1
    /\ pc' = "rejected"
    /\ UNCHANGED <<index, natom, nalt, paren>>

Re2postErr ==
    /\ err' = index
    /\ pc' = "rejected"
    /\ UNCHANGED <<index, natom, nalt, paren>>

Re2postLParen ==
    /\ InLoop
    /\ ch = "("
    /\ LET n == IF natom > 1 THEN natom - 1 ELSE natom
       IN /\ postfix' = IF natom > 1 THEN Append(postfix, ".") ELSE postfix
          /\ paren' = Append(paren, <<nalt, n>>)
    /\ nalt' = 0
    /\ natom' = 0
    /\ index' = index + 1
    /\ UNCHANGED <<pc, re, err>>
    /\ UNCHANGED buildVars
    /\ UNCHANGED matchVars

Re2postAlt ==
    /\ InLoop
    /\ ch = "|"
    /\ \/ /\ natom = 0
          /\ Re2postErr
          /\ UNCHANGED postfix
       \/ /\ natom # 0
          /\ postfix' = postfix \o Flush(natom)
          /\ natom' = 0
          /\ nalt' = nalt + 1
          /\ index' = index + 1
          /\ UNCHANGED <<pc, paren, err>>
    /\ UNCHANGED re
    /\ UNCHANGED buildVars
    /\ UNCHANGED matchVars

Re2postRParen ==
    /\ InLoop
    /\ ch = ")"
    /\ \/ /\ natom = 0
          /\ Re2postErr
          /\ UNCHANGED postfix
       \/ /\ natom # 0
          /\ paren = <<>>
          /\ postfix' = postfix \o Flush(natom) \o Rep("|", nalt)
          /\ Re2postErr
       \/ /\ natom # 0
          /\ paren # <<>>
          /\ postfix' = postfix \o Flush(natom) \o Rep("|", nalt)
          /\ LET tmp == paren[Len(paren)]
             IN /\ nalt' = tmp[1]
                /\ natom' = tmp[2] + 1
          /\ paren' = SubSeq(paren, 1, Len(paren) - 1)
          /\ index' = index + 1
          /\ UNCHANGED <<pc, err>>
    /\ UNCHANGED re
    /\ UNCHANGED buildVars
    /\ UNCHANGED matchVars

Re2postUnary ==
    /\ InLoop
    /\ ch \in {"*", "+", "?"}
    /\ \/ /\ natom = 0
          /\ Re2postErr
          /\ UNCHANGED postfix
       \/ /\ natom # 0
          /\ postfix' = Append(postfix, ch)
          /\ index' = index + 1
          /\ UNCHANGED <<pc, natom, nalt, paren, err>>
    /\ UNCHANGED re
    /\ UNCHANGED buildVars
    /\ UNCHANGED matchVars

Re2postLiteral ==
    /\ InLoop
    /\ ch \notin Operators
    /\ postfix' = (IF natom > 1 THEN Append(postfix, ".") ELSE postfix) \o <<ch>>
    /\ natom' = (IF natom > 1 THEN natom - 1 ELSE natom) + 1
    /\ index' = index + 1
    /\ UNCHANGED <<pc, re, nalt, paren, err>>
    /\ UNCHANGED buildVars
    /\ UNCHANGED matchVars

\* after the loop: flush the outermost level and return Ok(postfix)
Re2postEnd ==
    /\ pc = "re2post"
    /\ index = Len(re)
    /\ postfix' = postfix \o Flush(natom) \o Rep("|", nalt)
    /\ nalt' = 0
    /\ pc' = "postfix2nfa"
    /\ UNCHANGED <<re, index, natom, paren, err>>
    /\ UNCHANGED buildVars
    /\ UNCHANGED matchVars

(* ------------------------- Frag and postfix2nfa ------------------------ *)

Frag(st, out) == [start |-> st, out |-> out]
\* Frag::default
FragDefault == Frag(NULL_INDEX, <<>>)
list1(outp) == <<outp>>

\* state(): insert State {c, out, out1} and return its key as a StateIndex
\* the key of the new state wrapped as a reference to its out slot
state_index_as_slot(slab) == DualIndex2out(NextKey(slab))
state_index(slab) == Index(NextKey(slab))
state(slab, c, out, out1) == Append(slab, State(c, out, out1))

\* one iteration of Frag::patch's loop
PatchOne(slab, ix, target) ==
    IF ix.kind = "DualIndex2out1"
    THEN [slab EXCEPT ![ix.v + 1].out1 = target]
    ELSE [slab EXCEPT ![ix.v + 1].out = target]

RECURSIVE patch(_, _, _)
\* Frag::patch: point every place listed in out at target
patch(out, target, slab) ==
    IF out = <<>> THEN slab
    ELSE patch(Tail(out), target, PatchOne(slab, Head(out), target))

\* get_mut(..).unwrap() succeeds for every place listed in out
PatchOk(out, slab) == \A i \in 1..Len(out) : Has(slab, out[i].v)

\* the stack after n pops, and its n-th element from the top
Popped(stack, n) == SubSeq(stack, 1, Len(stack) - n)
Top(stack, n) == stack[Len(stack) - n + 1]

InBuild == pc = "build" /\ ptok < Len(postfix)
tok == postfix[ptok + 1]

\* frags.pop().unwrap() on an empty stack, or get_mut(..).unwrap() on no state
Postfix2nfaPanic ==
    /\ pc' = "panic"
    /\ UNCHANGED buildVars

\* the two sentinels inserted in the other order
Postfix2nfaBeginMatchFirst ==
    /\ pc = "postfix2nfa"
    /\ states' = <<MATCH_STATE, NULL_STATE>>
    /\ frags' = <<>>
    /\ ptok' = 0
    /\ pc' = "build"
    /\ UNCHANGED <<re, start>>
    /\ UNCHANGED convVars
    /\ UNCHANGED matchVars

Postfix2nfaBegin ==
    /\ pc = "postfix2nfa"
    /\ states' = <<NULL_STATE, MATCH_STATE>>
    /\ frags' = <<>>
    /\ ptok' = 0
    /\ pc' = "build"
    /\ UNCHANGED <<re, start>>
    /\ UNCHANGED convVars
    /\ UNCHANGED matchVars

Postfix2nfaConcat ==
    /\ InBuild
    /\ tok = "."
    /\ \/ /\ Len(frags) < 2
          /\ Postfix2nfaPanic
       \/ /\ Len(frags) >= 2
          /\ LET e2 == Top(frags, 1)
                 e1 == Top(frags, 2)
             IN IF ~PatchOk(e1.out, states) THEN Postfix2nfaPanic
                ELSE /\ states' = patch(e1.out, e2.start, states)
                     /\ frags' = Append(Popped(frags, 2), Frag(e1.start, e2.out))
                     /\ ptok' = ptok + 1
                     /\ UNCHANGED <<pc, start>>
    /\ UNCHANGED re
    /\ UNCHANGED convVars
    /\ UNCHANGED matchVars

Postfix2nfaAlt ==
    /\ InBuild
    /\ tok = "|"
    /\ \/ /\ Len(frags) < 2
          /\ Postfix2nfaPanic
       \/ /\ Len(frags) >= 2
          /\ LET e2 == Top(frags, 1)
                 e1 == Top(frags, 2)
             IN /\ states' = state(states, Split, e1.start, e2.start)
                /\ frags' = Append(Popped(frags, 2),
                                   Frag(state_index(states), e1.out \o e2.out))
          /\ ptok' = ptok + 1
          /\ UNCHANGED <<pc, start>>
    /\ UNCHANGED re
    /\ UNCHANGED convVars
    /\ UNCHANGED matchVars

Postfix2nfaStar ==
    /\ InBuild
    /\ tok = "*"
    /\ IF Len(frags) < 1 THEN Postfix2nfaPanic
       ELSE LET e == Top(frags, 1)
                s == state_index(states)
                slab == state(states, Split, e.start, NULL_INDEX)
            IN IF ~PatchOk(e.out, slab) THEN Postfix2nfaPanic
               ELSE /\ states' = patch(e.out, s, slab)
                    /\ frags' = Append(Popped(frags, 1), Frag(s, list1(point2out1(s))))
                    /\ ptok' = ptok + 1
                    /\ UNCHANGED <<pc, start>>
    /\ UNCHANGED re
    /\ UNCHANGED convVars
    /\ UNCHANGED matchVars

Postfix2nfaQuest ==
    /\ InBuild
    /\ tok = "?"
    /\ IF Len(frags) < 1 THEN Postfix2nfaPanic
       ELSE LET e == Top(frags, 1)
                s == state_index(states)
            IN /\ states' = state(states, Split, e.start, NULL_INDEX)
               /\ frags' = Append(Popped(frags, 1), Frag(s, Append(e.out, point2out1(s))))
               /\ ptok' = ptok + 1
               /\ UNCHANGED <<pc, start>>
    /\ UNCHANGED re
    /\ UNCHANGED convVars
    /\ UNCHANGED matchVars

Postfix2nfaPlus ==
    /\ InBuild
    /\ tok = "+"
    /\ IF Len(frags) < 1 THEN Postfix2nfaPanic
       ELSE LET e == Top(frags, 1)
                s == state_index(states)
                slab == state(states, Split, e.start, NULL_INDEX)
            IN IF ~PatchOk(e.out, slab) THEN Postfix2nfaPanic
               ELSE /\ states' = patch(e.out, s, slab)
                    /\ frags' = Append(Popped(frags, 1), Frag(e.start, list1(point2out1(s))))
                    /\ ptok' = ptok + 1
                    /\ UNCHANGED <<pc, start>>
    /\ UNCHANGED re
    /\ UNCHANGED convVars
    /\ UNCHANGED matchVars

Postfix2nfaLiteral ==
    /\ InBuild
    /\ tok \notin {".", "|", "*", "?", "+"}
    /\ LET s == state_index(states)
       IN /\ states' = state(states, Char(tok), NULL_INDEX, NULL_INDEX)
          /\ frags' = Append(frags, Frag(s, list1(point2out(s))))
    /\ ptok' = ptok + 1
    /\ UNCHANGED <<pc, re, start>>
    /\ UNCHANGED convVars
    /\ UNCHANGED matchVars

\* after the loop: frags.pop().unwrap_or_default(), patch to MATCH_INDEX, return
Postfix2nfaEnd ==
    /\ pc = "build"
    /\ ptok = Len(postfix)
    /\ LET e == IF frags = <<>> THEN FragDefault ELSE Top(frags, 1)
       IN IF ~PatchOk(e.out, states) THEN Postfix2nfaPanic
          ELSE /\ states' = patch(e.out, MATCH_INDEX, states)
               /\ start' = e.start
               /\ frags' = IF frags = <<>> THEN frags ELSE Popped(frags, 1)
               /\ pc' = "built"
               /\ UNCHANGED ptok
    /\ UNCHANGED re
    /\ UNCHANGED convVars
    /\ UNCHANGED matchVars

(* --------------------- add_state, step, is_match ----------------------- *)

\* what a run of add_state, step or is_match yields besides a set:
\*   "none"      it returned
\*   "overflow"  add_state re-entered a Split state that is still on its own
\*               call stack; nothing changes between the two entries, so the
\*               recursion never returns and the thread's stack overflows
\*   "segfault"  panic!("segment fault("): a key the slab does not hold
Closure(set, fault) == [set |-> set, fault |-> fault]

RECURSIVE add_state_keeps_split(_, _, _, _)
\* add_state inserting every state it visits, the Split states too
add_state_keeps_split(set, si, slab, onstack) ==
    IF ~Has(slab, value(si)) THEN Closure(set, "segfault")
    ELSE LET st == Get(slab, value(si))
         IN IF st.c.tag # "Split" THEN Closure(set \cup {si}, "none")
            ELSE IF si \in onstack THEN Closure(set, "overflow")
            ELSE LET r == add_state_keeps_split(set \cup {si}, st.out, slab,
                                                onstack \cup {si})
                 IN IF r.fault # "none" THEN r
                    ELSE add_state_keeps_split(r.set, st.out1, slab, onstack \cup {si})

RECURSIVE add_state_rec(_, _, _, _)
\* add_state with the Split states of the pending calls in onstack
add_state_rec(set, si, slab, onstack) ==
    IF ~Has(slab, value(si)) THEN Closure(set, "segfault")
    ELSE LET st == Get(slab, value(si))
         IN IF st.c.tag # "Split" THEN Closure(set \cup {si}, "none")
            ELSE IF si \in onstack THEN Closure(set, "overflow")
            ELSE LET r == add_state_rec(set, st.out, slab, onstack \cup {si})
                 IN IF r.fault # "none" THEN r
                    ELSE add_state_rec(r.set, st.out1, slab, onstack \cup {si})

add_state(set, si, slab) == add_state_rec(set, si, slab, {})

\* step: the members of cs step() calls add_state for
Stepping(c, cs, slab) ==
    {i \in cs : Has(slab, value(i)) /\ Get(slab, value(i)).c = Char(c)}

\* step: nset after the loop, when no call faulted
step(c, cs, slab) ==
    UNION {add_state({}, Get(slab, value(i)).out, slab).set : i \in Stepping(c, cs, slab)}

\* step: the ways its loop can die (the iteration order of a HashSet is not fixed)
StepFaults(c, cs, slab) ==
    ({add_state({}, Get(slab, value(i)).out, slab).fault : i \in Stepping(c, cs, slab)}
        \cup {"segfault" : i \in {j \in cs : ~Has(slab, value(j))}})
        \ {"none"}

\* is_match: every way its loop can end (the iteration order is not fixed)
is_match(set, slab) ==
    LET absent == {i \in set : ~Has(slab, value(i))}
        accept == {i \in set \ absent : Get(slab, value(i)).c = Match}
    IN {"true" : i \in accept} \cup {"segfault" : i \in absent}
           \cup (IF accept = {} /\ absent = {} THEN {"false"} ELSE {})

RECURSIVE run(_, _, _, _)
\* the loop of match_expr over the characters of str from set cs on
run(str, cs, slab, fault) ==
    IF fault # "none" \/ str = <<>> THEN Closure(cs, fault)
    ELSE LET f == StepFaults(Head(str), cs, slab)
         IN IF f # {} THEN Closure(cs, CHOOSE x \in f : TRUE)
            ELSE run(Tail(str), step(Head(str), cs, slab), slab, "none")

\* match_expr as one call: the set of results it can end with
match_expr(str, st, slab) ==
    LET c0 == add_state({}, st, slab)
        r == run(str, c0.set, slab, c0.fault)
    IN IF r.fault # "none" THEN {r.fault} ELSE is_match(r.set, slab)

\* the run died: the process is gone
MatchAbort(fault) ==
    /\ result' = fault
    /\ pc' = "aborted"

\* the two sets kept from one call to the next instead of made anew
MatchBeginKeepsSets ==
    /\ pc \in {"built", "matched"}
    /\ \E str \in Inputs : string' = str
    /\ spos' = 0
    /\ nset' = nset
    /\ LET r == add_state(cset, start, states)
       IN IF r.fault # "none"
          THEN MatchAbort(r.fault) /\ cset' = cset
          ELSE /\ cset' = r.set
               /\ result' = "none"
               /\ pc' = "match_expr"
    /\ UNCHANGED calls
    /\ UNCHANGED re
    /\ UNCHANGED convVars
    /\ UNCHANGED buildVars

\* match_expr is entered, on a fresh NFA or on one that was matched before
MatchBegin ==
    /\ pc \in {"built", "matched"}
    /\ \E str \in Inputs : string' = str
    /\ spos' = 0
    /\ nset' = {}
    /\ LET r == add_state({}, start, states)
       IN IF r.fault # "none"
          THEN MatchAbort(r.fault) /\ cset' = {}
          ELSE /\ cset' = r.set
               /\ result' = "none"
               /\ pc' = "match_expr"
    /\ UNCHANGED calls
    /\ UNCHANGED re
    /\ UNCHANGED convVars
    /\ UNCHANGED buildVars

\* one iteration of match_expr's loop: step, then swap cset and nset
MatchStep ==
    /\ pc = "match_expr"
    /\ spos < Len(string)
    /\ LET c == string[spos + 1]
           f == StepFaults(c, cset, states)
       IN IF f # {}
          THEN /\ \E x \in f : MatchAbort(x)
               /\ UNCHANGED <<cset, nset, spos>>
          ELSE /\ cset' = step(c, cset, states)
               /\ nset' = cset
               /\ spos' = spos + 1
               /\ UNCHANGED <<pc, result>>
    /\ UNCHANGED <<string, calls>>
    /\ UNCHANGED re
    /\ UNCHANGED convVars
    /\ UNCHANGED buildVars

\* after the loop: is_match(cset) is returned
MatchEnd ==
    /\ pc = "match_expr"
    /\ spos = Len(string)
    /\ \E r \in is_match(cset, states) :
          IF r = "segfault" THEN MatchAbort(r) /\ UNCHANGED calls
          ELSE /\ result' = r
               /\ pc' = "matched"
               /\ calls' = TRUE
    /\ UNCHANGED <<string, spos, cset, nset>>
    /\ UNCHANGED re
    /\ UNCHANGED convVars
    /\ UNCHANGED buildVars

Next ==
    \/ MatchBegin
    \/ MatchStep
    \/ MatchEnd
    \/ Re2postLParen
    \/ Re2postAlt
    \/ Re2postRParen
    \/ Re2postUnary
    \/ Re2postLiteral
    \/ Re2postEnd
    \/ Postfix2nfaBegin
    \/ Postfix2nfaConcat
    \/ Postfix2nfaAlt
    \/ Postfix2nfaStar
    \/ Postfix2nfaQuest
    \/ Postfix2nfaPlus
    \/ Postfix2nfaLiteral
    \/ Postfix2nfaEnd

Spec == Init /\ [][Next]_vars

\* the same pipeline run on the patterns (e)+
InitPlus ==
    /\ re \in PlusPatterns
    /\ pc = "re2post"
    /\ index = 0
    /\ natom = 0
    /\ nalt = 0
    /\ paren = <<>>
    /\ postfix = <<>>
    /\ err = -1
    /\ ptok = 0
    /\ states = <<>>
    /\ frags = <<>>
    /\ start = NULL_INDEX
    /\ string = <<>>
    /\ spos = 0
    /\ cset = {}
    /\ nset = {}
    /\ calls = FALSE
    /\ result = "none"

SpecPlus == InitPlus /\ [][Next]_vars

(* ----------------------- where the pipeline stands --------------------- *)

\* re2post returned Ok(postfix)
Accepted == pc \notin {"re2post", "rejected"}
\* postfix2nfa returned (start, states)
Built == pc \in {"built", "match_expr", "matched", "aborted"}

(* ------------------------- the reference matcher ----------------------- *)
(* A recursive-descent reading of the pattern itself, independent of the   *)
(* postfix form: alt := cat ('|' cat)*, cat := rep rep*, rep := atom       *)
(* ('*' | '+' | '?')*, atom := literal | '(' alt ')'.  Each parser yields  *)
(* the language of what it read, cut to the strings of at most MaxStrLen   *)
(* characters.  The character '.' is left out of the reference literals:   *)
(* it has a claim of its own (C7).                                         *)

RefLiterals == Literals \ {"."}

Trim(S) == {s \in S : Len(s) <= MaxStrLen}
CatL(A, B) == Trim({s \o t : s \in A, t \in B})
RECURSIVE StarIter(_, _, _)
StarIter(X, A, k) == IF k = 0 THEN X ELSE StarIter(X \cup CatL(X, A), A, k - 1)
StarL(A) == StarIter({<<>>}, A, MaxStrLen)
PlusL(A) == CatL(A, StarL(A))
OptL(A) == A \cup {<<>>}

Parsed(lang, next) == [ok |-> TRUE, lang |-> lang, next |-> next]
NoParse == [ok |-> FALSE, lang |-> {}, next |-> 0]
At(p, i) == IF i \in 1..Len(p) THEN p[i] ELSE "end"

RECURSIVE RefAlt(_, _), RefAltTail(_, _, _), RefCat(_, _), RefCatTail(_, _, _)
RECURSIVE RefRep(_, _, _), RefAtom(_, _)

RefAtom(p, i) ==
    IF At(p, i) \in RefLiterals THEN Parsed(Trim({<<p[i]>>}), i + 1)
    ELSE IF At(p, i) = "("
         THEN LET r == RefAlt(p, i + 1)
              IN IF r.ok /\ At(p, r.next) = ")" THEN Parsed(r.lang, r.next + 1)
                 ELSE NoParse
         ELSE NoParse

RefRep(p, lang, i) ==
    CASE At(p, i) = "*" -> RefRep(p, StarL(lang), i + 1)
      [] At(p, i) = "+" -> RefRep(p, PlusL(lang), i + 1)
      [] At(p, i) = "?" -> RefRep(p, OptL(lang), i + 1)
      [] OTHER -> Parsed(lang, i)

RefCatTail(p, lang, i) ==
    IF At(p, i) \in {"|", ")", "end"} THEN Parsed(lang, i)
    ELSE LET a == RefAtom(p, i)
         IN IF ~a.ok THEN NoParse
            ELSE LET r == RefRep(p, a.lang, a.next)
                 IN RefCatTail(p, CatL(lang, r.lang), r.next)

RefCat(p, i) ==
    LET a == RefAtom(p, i)
    IN IF ~a.ok THEN NoParse
       ELSE LET r == RefRep(p, a.lang, a.next)
            IN RefCatTail(p, r.lang, r.next)

RefAltTail(p, lang, i) ==
    IF At(p, i) # "|" THEN Parsed(lang, i)
    ELSE LET r == RefCat(p, i + 1)
         IN IF ~r.ok THEN NoParse
            ELSE RefAltTail(p, lang \cup r.lang, r.next)

RefAlt(p, i) ==
    LET r == RefCat(p, i)
    IN IF ~r.ok THEN NoParse ELSE RefAltTail(p, r.lang, r.next)

\* p is a (non-empty) pattern of the supported grammar
InGrammar(p) == LET r == RefAlt(p, 1) IN r.ok /\ r.next = Len(p) + 1
\* the strings of at most MaxStrLen characters in the language of p
RefLang(p) == RefAlt(p, 1).lang
RefMatch(p, str) == IF str \in RefLang(p) THEN "true" ELSE "false"

(* ------------------------------- claims -------------------------------- *)

\* C1: for every pattern of the supported grammar and every input string,
\* re2post, postfix2nfa and match_expr run to the end and match_expr returns
\* true exactly when the whole input is in the pattern's language.
C1_AgreesWithReference ==
    InGrammar(re) =>
        /\ pc \notin {"rejected", "panic", "aborted"}
        /\ pc = "matched" => result = RefMatch(re, string)

\* C2: the empty pattern compiles, the start of its NFA is the match state,
\* and it matches the empty input and no other.
C2_EmptyPattern ==
    re = <<>> =>
        /\ pc \notin {"rejected", "panic", "aborted"}
        /\ Built => start = MATCH_INDEX
        /\ pc = "matched" => result = (IF string = <<>> THEN "true" ELSE "false")

Count(p, c, lo, hi) == Cardinality({k \in lo..hi : p[k] = c})
\* some '(' of p has no ')' closing it
Unclosed(p) ==
    \E i \in 1..Len(p) :
        /\ p[i] = "("
        /\ \A j \in i..Len(p) : Count(p, "(", i, j) > Count(p, ")", i, j)

\* C3: a pattern with a '(' still open at the end of the input is never
\* given a postfix string: re2post returns a syntax error.
C3_UnclosedParenRejected == Unclosed(re) => ~Accepted

\* some '|' of p has nothing on its left or nothing on its right
EmptyBranch(p) ==
    \E i \in 1..Len(p) :
        /\ p[i] = "|"
        /\ \/ i = 1
           \/ i = Len(p)
           \/ p[i - 1] \in {"(", "|"}
           \/ p[i + 1] \in {")", "|"}

\* C4: a pattern with an empty alternation branch (leading, inner or
\* trailing) is never given a postfix string: re2post returns a syntax error.
C4_EmptyBranchRejected == EmptyBranch(re) => ~Accepted

\* C5: on the postfix of an accepted pattern postfix2nfa never pops an empty
\* fragment stack, and after the last token exactly one fragment is on the
\* stack (none for the empty pattern).
C5_BuilderNeverFails ==
    /\ pc # "panic"
    /\ (pc = "build" /\ ptok = Len(postfix)) =>
           Len(frags) = (IF re = <<>> THEN 0 ELSE 1)

Keys(slab) == 0..(Len(slab) - 1)
SplitKeys(slab) == {k \in Keys(slab) : Get(slab, k).c = Split}
\* the Split states a Split state's two arrows lead to
SplitSucc(slab, k) ==
    {value(Get(slab, k).out), value(Get(slab, k).out1)} \cap SplitKeys(slab)
RECURSIVE SplitReach(_, _, _)
SplitReach(slab, S, n) ==
    IF n = 0 THEN S
    ELSE SplitReach(slab, S \cup UNION {SplitSucc(slab, k) : k \in S}, n - 1)
\* some Split state leads back to itself through Split states only
HasSplitCycle(slab) ==
    \E k \in SplitKeys(slab) : k \in SplitReach(slab, SplitSucc(slab, k), Len(slab))

\* C6: the NFA of an accepted pattern has no cycle made of Split states
\* only, and so add_state's recursion ends: match_expr never dies of it.
C6_ClosureTerminates ==
    /\ Built => ~HasSplitCycle(states)
    /\ result # "overflow"

OnlyLiterals(p) == \A i \in 1..Len(p) : p[i] \notin Operators
CharKeys(slab) == {k \in Keys(slab) : Get(slab, k).c.tag = "Char"}

\* C7: every character other than | * + ? ( ) is a literal: a pattern made
\* of such characters compiles, and the one-character pattern c gives one
\* Literal(c) state and matches the input c and no other.
C7_OtherCharsAreLiterals ==
    /\ (re # <<>> /\ OnlyLiterals(re)) => pc \notin {"rejected", "panic"}
    /\ (Len(re) = 1 /\ OnlyLiterals(re)) =>
          /\ Built => /\ Cardinality(CharKeys(states)) = 1
                      /\ \A k \in CharKeys(states) : Get(states, k).c = Char(re[1])
          /\ pc # "aborted"
          /\ pc = "matched" => result = (IF string = re THEN "true" ELSE "false")

\* the number of groups open after the first i characters of p
Depth(p, i) == Count(p, "(", 1, i) - Count(p, ")", 1, i)
\* the character at (zero-based) position i of p breaks a rule: an operator
\* other than '(' where the current nesting level has no atom yet (at the
\* start, or right after a '(' or a '|'), or a ')' with no group open
Violates(p, i) ==
    \/ /\ p[i + 1] \in {"|", ")", "*", "+", "?"}
       /\ (i = 0 \/ p[i] \in {"(", "|"})
    \/ /\ p[i + 1] = ")"
       /\ Depth(p, i) = 0
Violations(p) == {i \in 0..(Len(p) - 1) : Violates(p, i)}
Min(S) == CHOOSE x \in S : \A y \in S : x <= y

\* C8: when re2post returns an error, the position it reports is that of
\* the first character, from the left, that breaks a rule; the scan never
\* goes past that character, so nothing after it has a say.
C8_ErrorPosition ==
    /\ pc = "rejected" => (Violations(re) # {} /\ err = Min(Violations(re)))
    /\ (pc = "re2post" /\ Violations(re) # {}) => index <= Min(Violations(re))
    /\ (Violations(re) # {} /\ pc # "re2post") => pc = "rejected"

\* C8's case: an error inside a group, with characters after it
C8_Witness ==
    /\ pc = "rejected"
    /\ err >= 1
    /\ err + 1 < Len(re)
    /\ paren # <<>>

\* the state set of a call on a freshly built NFA after the first n
\* characters of string
FreshSet(n) ==
    run(SubSeq(string, 1, n), add_state({}, start, states).set, states, "none").set

\* C9: match_expr writes nothing into the arena or the start reference, and
\* every call on the same NFA, the first or a later one, goes through the
\* state sets and ends with the result of a single call on the fresh NFA.
C9_NoLeakBetweenCalls ==
    /\ [](/\ pc = "match_expr" => cset = FreshSet(spos)
          /\ pc \in {"matched", "aborted"} => result \in match_expr(string, start, states))
    /\ [][Built => (states' = states /\ start' = start)]_vars

\* C9's case: a later call on an NFA that was matched before stands at the
\* end of a non-empty input with live states
C9_Witness ==
    /\ calls
    /\ pc = "match_expr"
    /\ spos = Len(string)
    /\ spos > 0
    /\ cset # {}
    /\ nset # {}

\* C10: postfix2nfa never returns an NFA while fragments are left on the
\* stack under the topmost one.
C10_NoFragmentDiscarded == Built => frags = <<>>

\* the states a state's used slots lead to: out of a Char, out and out1 of a Split
UsedSucc(slab, k) ==
    IF ~Has(slab, k) THEN {}
    ELSE LET st == Get(slab, k)
         IN CASE st.c.tag = "Char" -> {value(st.out)}
              [] st.c.tag = "Split" -> {value(st.out), value(st.out1)}
              [] OTHER -> {}
RECURSIVE ReachUsed(_, _, _)
ReachUsed(slab, S, n) ==
    IF n = 0 THEN S
    ELSE ReachUsed(slab, S \cup UNION {UsedSucc(slab, k) : k \in S}, n - 1)
\* the states of the finished NFA that can be reached from its start
Reachable == ReachUsed(states, {value(start)}, Len(states))

\* C11: in the NFA of an accepted pattern the placeholder (identity 0) is not
\* the start and is not reachable from it through a used slot, and the live
\* state sets of match_expr never hold it.
C11_PlaceholderUnreachable ==
    /\ Built => value(NULL_INDEX) \notin Reachable
    /\ pc \in {"match_expr", "matched"} => NULL_INDEX \notin cset \cup nset

\* the slots of the arena that are in use and still hold the placeholder
OpenSlots(slab) ==
    {point2out(Index(k)) : k \in {j \in Keys(slab) :
        Get(slab, j).c.tag \in {"Char", "Split"} /\ Get(slab, j).out = NULL_INDEX}}
    \cup {point2out1(Index(k)) : k \in {j \in Keys(slab) :
        Get(slab, j).c.tag = "Split" /\ Get(slab, j).out1 = NULL_INDEX}}

\* C12: when postfix2nfa returns for an accepted pattern, no open slot is
\* left in the arena: the out of every Char state and the out and out1 of
\* every Split state hold an identity other than the placeholder's.
C12_NoOpenSlotLeft == Built => OpenSlots(states) = {}

\* the live-state sets of a simulation run: cset, and nset, the set before it
LiveSets == {cset, nset}

\* C13: at every point of a simulation run the live-state set holds no Split
\* state and only identities of states that are in the arena, so it never
\* has more members than the automaton has states.
C13_LiveSetBounded ==
    pc \in {"match_expr", "matched", "aborted"} =>
        \A set \in LiveSets :
            /\ \A si \in set : Has(states, value(si)) /\ Get(states, value(si)).c # Split
            /\ Cardinality(set) <= Len(states)

\* C13's case: after a step of a run on an NFA with several Split states,
\* several states are live at once
C13_Witness ==
    /\ pc = "match_expr"
    /\ spos >= 1
    /\ Cardinality(cset) >= 2
    /\ Cardinality(SplitKeys(states)) >= 2

IsIndex(si) == si.kind = "Index"

\* the references in the open list of fragment f
OpenOf(f) == {f.out[j] : j \in 1..Len(f.out)}
\* the references in the open lists of the fragments on the stack
OpenRefs == UNION {OpenOf(frags[i]) : i \in 1..Len(frags)}

\* C14: slot references (DualIndex2out, DualIndex2out1) live only in the
\* open lists of fragments: every fragment's start, the returned start,
\* every value stored in an out or out1 slot and every member of a live
\* state set is a plain Index.
C14_SlotRefsOnlyInOpenLists ==
    /\ \A i \in 1..Len(frags) : IsIndex(frags[i].start)
    /\ IsIndex(start)
    /\ \A k \in Keys(states) : IsIndex(Get(states, k).out) /\ IsIndex(Get(states, k).out1)
    /\ \A si \in cset \cup nset : IsIndex(si)

\* C14's case: during construction two fragments are on the stack, one open
\* at an out slot and one at an out1 slot, and a slot has been patched
C14_Witness ==
    /\ pc = "build"
    /\ Len(frags) = 2
    /\ {r.kind : r \in OpenRefs} = {"DualIndex2out", "DualIndex2out1"}
    /\ \E k \in CharKeys(states) : Get(states, k).out # NULL_INDEX

\* postfix2nfa has made its slab
ArenaMade == pc \notin {"re2post", "rejected", "postfix2nfa"}
\* the next token makes postfix2nfa call state()
CallsState ==
    /\ InBuild
    /\ tok # "."
    /\ Len(frags) >= (CASE tok = "|" -> 2 [] tok \in {"*", "?", "+"} -> 1 [] OTHER -> 0)
\* the identities a fragment refers to: its start and its open slots
RefsOf(f) == {value(f.start)} \cup {value(r) : r \in OpenOf(f)}

\* C15: the placeholder is stored at identity 0 and the match state at
\* identity 1 before any other state; every state allocated afterwards gets
\* a fresh identity that is neither 0 nor 1 (the debug assertions hold); no
\* identity is ever removed or given to another state.
C15_SentinelsAndFreshIdentities ==
    /\ [](/\ ArenaMade => /\ Len(states) >= 2
                          /\ Get(states, value(NULL_INDEX)).c = Null
                          /\ Get(states, value(MATCH_INDEX)).c = Match
          /\ ~ArenaMade => states = <<>>
          /\ CallsState => state_index(states) \notin {NULL_INDEX, MATCH_INDEX})
    /\ [][/\ Len(states') >= Len(states)
          /\ \A k \in Keys(states) : Get(states', k).c = Get(states, k).c
          /\ (ArenaMade /\ Len(states') > Len(states)) =>
                /\ Len(states') = Len(states) + 1
                /\ Len(states) \in RefsOf(Top(frags', 1))
                /\ \A i \in 1..Len(frags) : Len(states) \notin RefsOf(frags[i])]_vars

\* C15's case: several states have been allocated after the two sentinels
\* and slots of earlier ones have been patched since
C15_Witness ==
    /\ pc = "build"
    /\ Len(states) >= 5
    /\ \E k \in Keys(states) : k >= 2 /\ value(Get(states, k).out) > k

\* C16: simulation on the NFA of an accepted pattern never refers to an
\* identity the arena does not hold (no "segment fault(" panic), and
\* matching ends with true or with false and nothing else.
C16_SimulationNeverFaults ==
    /\ result # "segfault"
    /\ pc \in {"matched", "aborted"} => result \in {"true", "false"}

\* the slot Frag::patch writes for a reference of an open list
SlotOf(r) == <<value(r), IF r.kind = "DualIndex2out1" THEN "out1" ELSE "out">>
\* what a slot of the slab holds
SlotValue(slab, slot) ==
    IF slot[2] = "out1" THEN Get(slab, slot[1]).out1 ELSE Get(slab, slot[1]).out
AllSlots(slab) == Keys(slab) \X {"out", "out1"}
RECURSIVE OpenCount(_)
\* the number of entries of the open lists of a stack of fragments
OpenCount(stack) ==
    IF stack = <<>> THEN 0 ELSE Len(Head(stack).out) + OpenCount(Tail(stack))
OpenSlotsOf(stack) ==
    UNION {{SlotOf(r) : r \in OpenOf(stack[i])} : i \in 1..Len(stack)}

\* C17: after every postfix token, every reference in the open list of every
\* fragment on the stack names a slot of a state of the arena that still
\* holds the placeholder, and no slot is named twice, in one list or in two;
\* a slot is written only when it leaves the open lists, once, and a slot
\* that holds a state is never written again.
C17_OpenSlotsUnwiredAndDistinct ==
    /\ [](/\ \A slot \in OpenSlotsOf(frags) :
                /\ Has(states, slot[1])
                /\ SlotValue(states, slot) = NULL_INDEX
          /\ OpenCount(frags) = Cardinality(OpenSlotsOf(frags)))
    /\ [][\A slot \in AllSlots(states) :
             /\ SlotValue(states, slot) # NULL_INDEX =>
                    SlotValue(states', slot) = SlotValue(states, slot)
             /\ SlotValue(states', slot) # SlotValue(states, slot) =>
                    slot \in OpenSlotsOf(frags) \ OpenSlotsOf(frags')
             /\ slot \in OpenSlotsOf(frags) \ OpenSlotsOf(frags') =>
                    SlotValue(states', slot) # NULL_INDEX]_vars

\* C17's case: two fragments on the stack with three open slots in all, one
\* list holding two of them
C17_Witness ==
    /\ pc = "build"
    /\ Len(frags) = 2
    /\ Cardinality(OpenSlotsOf(frags)) = 3
    /\ \E k \in Keys(states) : k >= 2 /\ Get(states, k).out # NULL_INDEX

\* q is one atom of the grammar: a literal or a group
IsAtom(q) == LET a == RefAtom(q, 1) IN a.ok /\ a.next = Len(q) + 1
\* re is e+ for an atom e that does not accept the empty string
PlusOfNonEmpty ==
    /\ Len(re) >= 2
    /\ re[Len(re)] = "+"
    /\ IsAtom(SubSeq(re, 1, Len(re) - 1))
    /\ <<>> \notin RefAtom(re, 1).lang
\* the step consumes a token that makes postfix2nfa allocate a state
Allocates(t) == InBuild /\ tok = t /\ ptok' = ptok + 1

\* C18: for '+' the pushed fragment starts at the operand's start, not at
\* the new Split; the operand's open slots are patched to the Split and the
\* Split's out1 is the only open slot.  So for an operand e that does not
\* accept the empty string, e+ accepts exactly the concatenations of one or
\* more strings of e.  For a literal, '|', '*' and '?' the pushed fragment
\* starts at the newly allocated state.
C18_PlusForcesOneIteration ==
    /\ [](PlusOfNonEmpty =>
             /\ pc \notin {"rejected", "panic", "aborted"}
             /\ pc = "matched" =>
                   result = (IF string \in PlusL(RefAtom(re, 1).lang)
                             THEN "true" ELSE "false"))
    /\ [][/\ Allocates("+") =>
                LET e == Top(frags, 1)
                    s == Index(Len(states))
                IN /\ Top(frags', 1) = Frag(e.start, <<point2out1(s)>>)
                   /\ e.start # s
                   /\ Get(states', value(s)).c = Split
                   /\ Get(states', value(s)).out = e.start
                   /\ \A r \in OpenOf(e) : SlotValue(states', SlotOf(r)) = s
          /\ (\E t \in {"|", "*", "?"} \cup RefLiterals : Allocates(t)) =>
                Top(frags', 1).start = Index(Len(states))]_vars

====
